---- MODULE Spec2Model ----
(***************************************************************************)
(* Email cleaning pipelines of telegram_email_cleaner.py (clean_email_list)*)
(* and Email_cleaner.py (clean_emails).  A string is a sequence of         *)
(* one-character strings; every regular expression of the source is an    *)
(* operator that computes what re.sub / re.split / re.match compute.      *)
(***************************************************************************)
EXTENDS Integers, Sequences, FiniteSets, TLC

VARIABLES run, file, text, once, applied

vars == <<run, file, text, once, applied>>

(***************************************************************************)
(* Characters.  Ascii lists the modelled characters in code point order;  *)
(* Python compares strings code point by code point.                      *)
(***************************************************************************)
Ascii == <<"\t","\n"," ","!","\"","%","'","(",")","+",",","-",".","0","1","2","3","4","5","6","7","8","9",":",";","<",">","@","A","B","C","D","E","F","G","H","I","J","K","L","M","N","O","P","Q","R","S","T","U","V","W","X","Y","Z","[","]","_","a","b","c","d","e","f","g","h","i","j","k","l","m","n","o","p","q","r","s","t","u","v","w","x","y","z","|">>

Range(s) == {s[k] : k \in 1..Len(s)}

Chars == Range(Ascii)

Ord == [c \in Chars |-> CHOOSE k \in 1..Len(Ascii) : Ascii[k] = c]

UpperLetters == Range(<<"A","B","C","D","E","F","G","H","I","J","K","L","M","N","O","P","Q","R","S","T","U","V","W","X","Y","Z">>)

LowerLetters == Range(<<"a","b","c","d","e","f","g","h","i","j","k","l","m","n","o","p","q","r","s","t","u","v","w","x","y","z">>)

Digits == Range(<<"0","1","2","3","4","5","6","7","8","9">> (* 0123456789 *))

\* \s restricted to the modelled characters
Space == {"\t", "\n", " "}

\* \w restricted to the modelled characters
Word == UpperLetters \cup LowerLetters \cup Digits \cup {"_"}

\* [a-z0-9._%+\-]
LocalClass == LowerLetters \cup Digits \cup Range(<<".","_","%","+","-">>)

\* [a-z0-9.-]
DomainClass == LowerLetters \cup Digits \cup Range(<<".","-">>)

\* str.lower() on one character
LowerChar ==
  [c \in Chars |->
     IF c \in UpperLetters
     THEN <<"a","b","c","d","e","f","g","h","i","j","k","l","m","n","o","p","q","r","s","t","u","v","w","x","y","z">>[CHOOSE k \in 1..26 : <<"A","B","C","D","E","F","G","H","I","J","K","L","M","N","O","P","Q","R","S","T","U","V","W","X","Y","Z">>[k] = c]
     ELSE c]

lower(s) == [k \in 1..Len(s) |-> LowerChar[s[k]]]

(***************************************************************************)
(* String helpers                                                          *)
(***************************************************************************)
Drop(s, n) == SubSeq(s, n + 1, Len(s))

RECURSIVE Skip(_, _, _)
\* the first position at or after i whose character is not in class C
Skip(C, s, i) == IF i <= Len(s) /\ s[i] \in C THEN Skip(C, s, i + 1) ELSE i

RECURSIVE SkipBack(_, _, _)
\* the last position at or before i whose character is not in class C
SkipBack(C, s, i) == IF i >= 1 /\ s[i] \in C THEN SkipBack(C, s, i - 1) ELSE i

\* str.strip(chars): drop the characters of C from both ends
strip(C, s) == LET lo == Skip(C, s, 1) IN SubSeq(s, lo, SkipBack(C, s, Len(s)))

\* keep the characters of C: re.sub of a negated one-character class by ""
Keep(C, s) == SelectSeq(s, LAMBDA c : c \in C)

\* remove the characters of C: re.sub of a one-character class (or C+) by ""
Remove(C, s) == SelectSeq(s, LAMBDA c : c \notin C)

Contains(s, c) == \E k \in 1..Len(s) : s[k] = c

IndexOf(s, c) == CHOOSE k \in 1..Len(s) : s[k] = c /\ \A m \in 1..(k - 1) : s[m] # c

\* s.split("@", 1) of a string that holds an "@"
BeforeAt(s) == SubSeq(s, 1, IndexOf(s, "@") - 1)

AfterAt(s) == Drop(s, IndexOf(s, "@"))

StartsAt(s, i, w) == i + Len(w) - 1 <= Len(s) /\ SubSeq(s, i, i + Len(w) - 1) = w

\* the regex "$" at position j: the end, or just before a final newline
AtEnd(s, j) == j = Len(s) + 1 \/ (j = Len(s) /\ s[j] = "\n")

\* \s*X\s* for a character X
WsLitWs(x, s, i) ==
  LET k == Skip(Space, s, i)
  IN  IF k <= Len(s) /\ s[k] = x THEN Skip(Space, s, k + 1) ELSE 0

\* X{2,} for a character X
Repeat2(x, s, i) ==
  IF s[i] = x /\ i + 1 <= Len(s) /\ s[i + 1] = x THEN Skip({x}, s, i) ELSE 0

\* C+ for a class C
Plus(C, s, i) == IF s[i] \in C THEN Skip(C, s, i) ELSE 0

\* the literal w
Lit(w, s, i) == IF StartsAt(s, i, w) THEN i + Len(w) ELSE 0

\* \.$ : a final dot, also one just before a final newline
TrailingDot(s, i) == IF s[i] = "." /\ AtEnd(s, i + 1) THEN i + 1 ELSE 0

\* \.(w1|w2|...)$ : the alternatives are tried in order
TldTypo(words, s, i) ==
  IF s[i] = "." /\ \E n \in 1..Len(words) :
                      StartsAt(s, i + 1, words[n]) /\ AtEnd(s, i + 1 + Len(words[n]))
  THEN LET n == CHOOSE n \in 1..Len(words) :
                  /\ StartsAt(s, i + 1, words[n]) /\ AtEnd(s, i + 1 + Len(words[n]))
                  /\ \A m \in 1..(n - 1) :
                       ~(StartsAt(s, i + 1, words[m]) /\ AtEnd(s, i + 1 + Len(words[m])))
       IN  i + 1 + Len(words[n])
  ELSE 0

\* \.+@
DotsAt(s, i) ==
  LET k == Skip({"."}, s, i)
  IN  IF k > i /\ k <= Len(s) /\ s[k] = "@" THEN k + 1 ELSE 0

\* \s*\(?\s*WORD\s*\)?\s* : every quantifier is greedy and none has to give
\* characters back, because no class of the pattern overlaps the next one
ParenWord(w, s, i) ==
  LET k1 == Skip(Space, s, i)
      k2 == IF k1 <= Len(s) /\ s[k1] = "(" THEN k1 + 1 ELSE k1
      k3 == Skip(Space, s, k2)
  IN  IF StartsAt(s, k3, w)
      THEN LET e1 == Skip(Space, s, k3 + Len(w))
               e2 == IF e1 <= Len(s) /\ s[e1] = ")" THEN e1 + 1 ELSE e1
           IN  Skip(Space, s, e2)
      ELSE 0

\* \s*\[WORD\]\s* , given as the literal with its brackets
BracketWord(w, s, i) ==
  LET k == Skip(Space, s, i)
  IN  IF StartsAt(s, k, w) THEN Skip(Space, s, k + Len(w)) ELSE 0

\* \s*@,\.*\s*
AtComma(s, i) ==
  LET k == Skip(Space, s, i)
  IN  IF StartsAt(s, k, <<"@",",">>) THEN Skip(Space, s, Skip({"."}, s, k + 2)) ELSE 0

\* \s+@\s+
SpacedAt(s, i) ==
  LET k == Skip(Space, s, i)
  IN  IF k > i /\ k < Len(s) /\ s[k] = "@" /\ s[k + 1] \in Space
      THEN Skip(Space, s, k + 1) ELSE 0

\* @[,\.]+
AtPunct(s, i) ==
  IF s[i] = "@" /\ i < Len(s) /\ s[i + 1] \in {",", "."}
  THEN Skip({",", "."}, s, i + 1) ELSE 0

\* the position after the match of pattern pat that starts at position i of
\* s, or 0 when the pattern does not match there; a pattern is given by the
\* name of its matcher and the matcher's argument
Match(pat, s, i) ==
  CASE pat[1] = "WsLitWs" -> WsLitWs(pat[2], s, i)
    [] pat[1] = "Repeat2" -> Repeat2(pat[2], s, i)
    [] pat[1] = "Plus" -> Plus(pat[2], s, i)
    [] pat[1] = "Lit" -> Lit(pat[2], s, i)
    [] pat[1] = "TrailingDot" -> TrailingDot(s, i)
    [] pat[1] = "TldTypo" -> TldTypo(pat[2], s, i)
    [] pat[1] = "DotsAt" -> DotsAt(s, i)
    [] pat[1] = "ParenWord" -> ParenWord(pat[2], s, i)
    [] pat[1] = "BracketWord" -> BracketWord(pat[2], s, i)
    [] pat[1] = "AtComma" -> AtComma(s, i)
    [] pat[1] = "SpacedAt" -> SpacedAt(s, i)
    [] pat[1] = "AtPunct" -> AtPunct(s, i)

\* re.sub(pattern, repl, s): the matches are replaced from left to right,
\* the scan going on after each match; the text between two matches is
\* copied.  Every pattern of the source matches at least one character.
\* Sub works on the value v of s, with the matcher M of the pattern.
ReSub(pat, repl, s) ==
  LET Sub(M(_, _), v) ==
        LET f[i \in 1..(Len(v) + 1)] ==
              IF \A k \in i..Len(v) : M(v, k) = 0 THEN SubSeq(v, i, Len(v))
              ELSE LET k == CHOOSE k \in i..Len(v) :
                              M(v, k) > 0 /\ \A m \in i..(k - 1) : M(v, m) = 0
                   IN  SubSeq(v, i, k - 1) \o repl \o f[M(v, k)]
        IN  f[1]
  IN  CHOOSE r \in {Sub(LAMBDA w, i : Match(pat, w, i), v) : v \in {s}} : TRUE

\* x < y: Python orders strings lexicographically by code point; k is the
\* first position where y differs from x or x has ended
StrLess(x, y) ==
  \E k \in 1..Len(y) :
    /\ \A m \in 1..(k - 1) : m <= Len(x) /\ x[m] = y[m]
    /\ k > Len(x) \/ Ord[x[k]] < Ord[y[k]]

(***************************************************************************)
(* telegram_email_cleaner.py                                               *)
(***************************************************************************)
COMMON_DOMAINS ==
  << <<"g","m","a","i","l",".","c","o","m">> (* gmail.com *),
     <<"y","a","h","o","o",".","c","o","m">> (* yahoo.com *),
     <<"h","o","t","m","a","i","l",".","c","o","m">> (* hotmail.com *),
     <<"o","u","t","l","o","o","k",".","c","o","m">> (* outlook.com *),
     <<"i","c","l","o","u","d",".","c","o","m">> (* icloud.com *),
     <<"a","o","l",".","c","o","m">> (* aol.com *),
     <<"c","o","m","c","a","s","t",".","n","e","t">> (* comcast.net *),
     <<"v","e","r","i","z","o","n",".","n","e","t">> (* verizon.net *),
     <<"m","s","n",".","c","o","m">> (* msn.com *),
     <<"l","i","v","e",".","c","o","m">> (* live.com *),
     <<"p","r","o","t","o","n","m","a","i","l",".","c","o","m">> (* protonmail.com *),
     <<"p","r","o","t","o","n",".","m","e">> (* proton.me *),
     <<"z","o","h","o",".","c","o","m">> (* zoho.com *),
     <<"f","a","s","t","m","a","i","l",".","c","o","m">> (* fastmail.com *),
     <<"m","a","i","l",".","c","o","m">> (* mail.com *),
     <<"g","m","x",".","c","o","m">> (* gmx.com *),
     <<"m","a","i","l",".","r","u">> (* mail.ru *),
     <<"y","a","n","d","e","x",".","c","o","m">> (* yandex.com *),
     <<"y","a","n","d","e","x",".","r","u">> (* yandex.ru *),
     <<"h","o","t","m","a","i","l",".","c","o",".","u","k">> (* hotmail.co.uk *),
     <<"h","o","t","m","a","i","l",".","d","e">> (* hotmail.de *),
     <<"w","e","b",".","d","e">> (* web.de *),
     <<"g","m","x",".","d","e">> (* gmx.de *),
     <<"t","-","o","n","l","i","n","e",".","d","e">> (* t-online.de *),
     <<"f","r","e","e","n","e","t",".","d","e">> (* freenet.de *),
     <<"p","o","s","t","e","o",".","d","e">> (* posteo.de *),
     <<"o","n","l","i","n","e",".","d","e">> (* online.de *),
     <<"a","r","c","o","r",".","d","e">> (* arcor.de *),
     <<"e","m","a","i","l",".","d","e">> (* email.de *),
     <<"o","u","t","l","o","o","k",".","d","e">> (* outlook.de *),
     <<"h","o","t","m","a","i","l",".","d","e">> (* hotmail.de *),
     <<"g","m","x",".","n","e","t">> (* gmx.net *),
     <<"p","o","s","t","e","o",".","e","u">> (* posteo.eu *),
     <<"t","u","t","a","n","o","t","a",".","c","o","m">> (* tutanota.com *),
     <<"o","r","a","n","g","e",".","f","r">> (* orange.fr *),
     <<"b","t","i","n","t","e","r","n","e","t",".","c","o","m">> (* btinternet.com *),
     <<"v","i","r","g","i","n","m","e","d","i","a",".","c","o","m">> (* virginmedia.com *),
     <<"s","h","a","w",".","c","a">> (* shaw.ca *),
     <<"n","t","l","w","o","r","l","d",".","c","o","m">> (* ntlworld.com *),
     <<"c","o","x",".","n","e","t">> (* cox.net *),
     <<"a","t","t",".","n","e","t">> (* att.net *),
     <<"b","e","l","l","s","o","u","t","h",".","n","e","t">> (* bellsouth.net *),
     <<"s","b","c","g","l","o","b","a","l",".","n","e","t">> (* sbcglobal.net *) >>

COMMON_DOMAINS_SET == Range(COMMON_DOMAINS)

normalize_local_part(local) ==
  LET l1 == lower(strip(Space, local))
      l2 == ReSub(<<"Plus", Space>>, <<".">>, l1)
      l3 == ReSub(<<"Repeat2", ".">>, <<".">>, l2)
      l4 == IF l3 # <<>> /\ l3[1] = "." THEN Tail(l3) ELSE l3
      l5 == ReSub(<<"TrailingDot">>, <<>>, l4)
  IN  Keep(LocalClass, l5)

normalize_domain_part(domain) ==
  LET d1 == lower(strip(Space, domain))
      d2 == ReSub(<<"Lit", <<".",".">>>>, <<".">>, d1)
      d3 == Keep(Word \cup {".", "-"}, d2)
      d4 == ReSub(<<"TldTypo", <<<<"c","o","n">> (* con *), <<"c","i","m">> (* cim *), <<"c","m">>, <<"c","0","m">> (* c0m *)>>>>, <<".","c","o","m">> (* .com *), d3)
  IN  ReSub(<<"TldTypo", <<<<"d","e","u">> (* deu *),
  <<"d">>>>>>, <<".","d","e">> (* .de *),
  d4)

(***************************************************************************)
(* difflib.SequenceMatcher without junk (autojunk needs 200 characters)    *)
(***************************************************************************)
RECURSIVE RunLen(_, _, _, _, _, _)
\* the length of the common run of a from i and b from j, below ahi and bhi
RunLen(a, b, i, j, ahi, bhi) ==
  IF i < ahi /\ j < bhi /\ a[i] = b[j] THEN 1 + RunLen(a, b, i + 1, j + 1, ahi, bhi) ELSE 0

\* find_longest_match: <<i, j, k>> with k maximal, then i minimal, then j
\* minimal.  A longest block starts where a common run starts.
find_longest_match(a, b, alo, ahi, blo, bhi) ==
  LET P == {p \in (alo..(ahi - 1)) \X (blo..(bhi - 1)) :
              /\ a[p[1]] = b[p[2]]
              /\ (p[1] = alo \/ p[2] = blo \/ a[p[1] - 1] # b[p[2] - 1])}
      T == {<<RunLen(a, b, p[1], p[2], ahi, bhi), p[1], p[2]>> : p \in P}
  IN  IF T = {} THEN <<alo, blo, 0>>
      ELSE LET best == CHOOSE t \in T :
                         \A u \in T :
                           \/ u[1] < t[1]
                           \/ u[1] = t[1] /\ (t[2] < u[2] \/ (t[2] = u[2] /\ t[3] <= u[3]))
           IN  <<best[2], best[3], best[1]>>

RECURSIVE MatchTotal(_, _, _, _, _, _)
\* the sum of the sizes of get_matching_blocks over a[alo..ahi) and b[blo..bhi)
MatchTotal(a, b, alo, ahi, blo, bhi) ==
  IF alo >= ahi \/ blo >= bhi THEN 0
  ELSE LET m == find_longest_match(a, b, alo, ahi, blo, bhi)
       IN  IF m[3] = 0 THEN 0
           ELSE m[3] + MatchTotal(a, b, alo, m[1], blo, m[2])
                     + MatchTotal(a, b, m[1] + m[3], ahi, m[2] + m[3], bhi)

\* _calculate_ratio(matches, length) = 2.0 * matches / length, kept as the
\* pair <<numerator, denominator>>; 1.0 when the length is 0
calculate_ratio(matches, length) == IF length = 0 THEN <<1, 1>> ELSE <<2 * matches, length>>

ratio(a, b) == calculate_ratio(MatchTotal(a, b, 1, Len(a) + 1, 1, Len(b) + 1), Len(a) + Len(b))

Count(s, c) == Cardinality({k \in 1..Len(s) : s[k] = c})

RECURSIVE SumMin(_, _, _)
SumMin(a, b, cs) ==
  IF cs = {} THEN 0
  ELSE LET c == CHOOSE c \in cs : TRUE
           m == IF Count(a, c) < Count(b, c) THEN Count(a, c) ELSE Count(b, c)
       IN  m + SumMin(a, b, cs \ {c})

\* quick_ratio(): the characters the two strings share, counted as multisets
quick_ratio(a, b) == calculate_ratio(SumMin(a, b, Range(a)), Len(a) + Len(b))

\* real_quick_ratio(): from the two lengths alone
real_quick_ratio(a, b) ==
  calculate_ratio(IF Len(a) < Len(b) THEN Len(a) ELSE Len(b), Len(a) + Len(b))

\* score >= cutoff, the cutoff given as num / den
Reaches(score, num, den) == score[1] * den >= num * score[2]

\* get_close_matches(word, possibilities, n=1, cutoff=num/den): the
\* possibility with the largest (ratio, string) among those that pass the
\* three tests, as a sequence of at most one string
get_close_matches(word, possibilities, num, den) ==
  LET Good == {x \in Range(possibilities) :
                 /\ Reaches(real_quick_ratio(x, word), num, den)
                 /\ Reaches(quick_ratio(x, word), num, den)
                 /\ Reaches(ratio(x, word), num, den)}
      Above(x, y) ==
        LET sx == ratio(x, word)
            sy == ratio(y, word)
        IN  \/ sx[1] * sy[2] > sy[1] * sx[2]
            \/ sx[1] * sy[2] = sy[1] * sx[2] /\ (x = y \/ StrLess(y, x))
  IN  IF Good = {} THEN <<>>
      ELSE <<CHOOSE x \in Good : \A y \in Good : Above(x, y)>>

\* the exact replacements of fuzzy_correct_domain, in dictionary order
replacements ==
  << <<<<"g","a","m","i","l",".","c","o","m">> (* gamil.com *), <<"g","m","a","i","l",".","c","o","m">> (* gmail.com *)>>,
     <<<<"g","m","i","a","l",".","c","o","m">> (* gmial.com *), <<"g","m","a","i","l",".","c","o","m">> (* gmail.com *)>>,
     <<<<"g","m","a","i","l","l",".","c","o","m">> (* gmaill.com *), <<"g","m","a","i","l",".","c","o","m">> (* gmail.com *)>>,
     <<<<"o","u","t","l","o","k",".","c","o","m">> (* outlok.com *), <<"o","u","t","l","o","o","k",".","c","o","m">> (* outlook.com *)>>,
     <<<<"o","u","t","l","l","o","k",".","c","o","m">> (* outllok.com *), <<"o","u","t","l","o","o","k",".","c","o","m">> (* outlook.com *)>>,
     <<<<"y","a","h","h","o",".","c","o","m">> (* yahho.com *), <<"y","a","h","o","o",".","c","o","m">> (* yahoo.com *)>>,
     <<<<"w","e","b","d",".","d","e">> (* webd.de *), <<"w","e","b",".","d","e">> (* web.de *)>>,
     <<<<"g","m","x","d","e">> (* gmxde *), <<"g","m","x",".","d","e">> (* gmx.de *)>> >>

\* key in dict
HasKey(dict, key) == \E n \in 1..Len(dict) : dict[n][1] = key

\* dict[key]
Lookup(dict, key) == dict[CHOOSE n \in 1..Len(dict) : dict[n][1] = key][2]

\* <<corrected domain, whether a correction was applied>>
fuzzy_correct_domain(domain0) ==
  LET domain == normalize_domain_part(domain0)
  IN  IF domain \in COMMON_DOMAINS_SET THEN <<domain, FALSE>>
      ELSE IF HasKey(replacements, domain) THEN <<Lookup(replacements, domain), TRUE>>
      ELSE LET match == get_close_matches(domain, COMMON_DOMAINS, 3, 4)
           IN  IF match # <<>> THEN <<match[1], TRUE>> ELSE <<domain, FALSE>>

\* EMAIL_VALID_RE.match(candidate), and EMAIL_REGEX.match with the letter
\* classes given: ^[local]+@[dom]+\.[letters]{tld,}$ .  The local class holds
\* no "@", so the local part ends at the first "@"; the last segment holds
\* no ".", so it starts after the last "."; "$" also matches before a
\* final newline.
MatchEmail(localClass, domClass, letters, tld, candidate) ==
  LET n == Len(candidate)
      Ends(e) ==
        /\ Contains(SubSeq(candidate, 1, e), "@")
        /\ LET at == IndexOf(SubSeq(candidate, 1, e), "@")
           IN  /\ at > 1
               /\ \A k \in 1..(at - 1) : candidate[k] \in localClass
               /\ \E dot \in (at + 2)..(e - tld) :
                     /\ candidate[dot] = "."
                     /\ \A k \in (at + 1)..(dot - 1) : candidate[k] \in domClass
                     /\ \A k \in (dot + 1)..e : candidate[k] \in letters
  IN  Ends(n) \/ (n >= 1 /\ candidate[n] = "\n" /\ Ends(n - 1))

\* the pattern with the last segment of extract_emails_from_text, {1,}
EmailValidShortTld(candidate) == MatchEmail(LocalClass, DomainClass, LowerLetters, 1, candidate)

EMAIL_VALID_RE(candidate) == MatchEmail(LocalClass, DomainClass, LowerLetters, 2, candidate)

\* lines 126-139 of clean_single_email: the string before the "@" test
PreClean(raw) ==
  LET s1 == lower(strip(Space, raw))
      s2 == strip({"'", "\""}, s1)
      s3 == Remove({"\t", "\n"}, s2)
      s4 == Keep(Word \cup Range(<<"@",".","-","+","%"," ">>), s3)
      s5 == ReSub(<<"WsLitWs", "@">>, <<"@">>, s4)
      s6 == ReSub(<<"WsLitWs", ".">>, <<".">>, s5)
      s7 == ReSub(<<"Repeat2", ".">>, <<".">>, s6)
  IN  ReSub(<<"DotsAt">>, <<"@">>, s7)

\* <<clean_email, reason>>
clean_single_email(raw) ==
  LET s == PreClean(raw)
  IN  IF ~Contains(s, "@") THEN <<<<>>, "no_at">>
      ELSE LET local     == normalize_local_part(BeforeAt(s))
               domain    == fuzzy_correct_domain(normalize_domain_part(AfterAt(s)))[1]
               candidate == local \o <<"@">> \o domain
           IN  IF ~EMAIL_VALID_RE(candidate) THEN <<<<>>, "invalid_format">>
               ELSE <<candidate, "">>

\* re.split(r"[,\t;|]+", raw): the pieces between the runs of separators,
\* empty pieces at the two ends included
re_split(raw) ==
  LET Sep == {",", "\t", ";", "|"}
      f[i \in 1..(Len(raw) + 1)] ==
        LET j == CHOOSE j \in i..(Len(raw) + 1) :
                   /\ j = Len(raw) + 1 \/ raw[j] \in Sep
                   /\ \A k \in i..(j - 1) : raw[k] \notin Sep
        IN  IF j > Len(raw) THEN <<SubSeq(raw, i, Len(raw))>>
            ELSE <<SubSeq(raw, i, j - 1)>> \o f[Skip(Sep, raw, j)]
  IN  f[1]

(***************************************************************************)
(* Email_cleaner.py                                                        *)
(***************************************************************************)
EC_COMMON_DOMAINS ==
  << <<"g","m","a","i","l",".","c","o","m">> (* gmail.com *),
     <<"y","a","h","o","o",".","c","o","m">> (* yahoo.com *),
     <<"y","m","a","i","l",".","c","o","m">> (* ymail.com *),
     <<"o","u","t","l","o","o","k",".","c","o","m">> (* outlook.com *),
     <<"h","o","t","m","a","i","l",".","c","o","m">> (* hotmail.com *),
     <<"i","c","l","o","u","d",".","c","o","m">> (* icloud.com *),
     <<"a","o","l",".","c","o","m">> (* aol.com *),
     <<"p","r","o","t","o","n","m","a","i","l",".","c","o","m">> (* protonmail.com *),
     <<"z","o","h","o",".","c","o","m">> (* zoho.com *),
     <<"l","i","v","e",".","c","o","m">> (* live.com *),
     <<"m","s","n",".","c","o","m">> (* msn.com *),
     <<"e","x","a","m","p","l","e",".","c","o","m">> (* example.com *),
     <<"g","m","x",".","c","o","m">> (* gmx.com *),
     <<"y","a","n","d","e","x",".","c","o","m">> (* yandex.com *),
     <<"m","e",".","c","o","m">> (* me.com *),
     <<"t","u","t","a","n","o","t","a",".","c","o","m">> (* tutanota.com *),
     <<"f","a","s","t","m","a","i","l",".","c","o","m">> (* fastmail.com *),
     <<"m","a","i","l",".","c","o","m">> (* mail.com *),
     <<"w","e","b",".","d","e">> (* web.de *),
     <<"g","m","x",".","d","e">> (* gmx.de *),
     <<"t","-","o","n","l","i","n","e",".","d","e">> (* t-online.de *) >>

TYPO_CORRECTIONS ==
  << <<<<"g","a","m","i","l",".","c","o","m">> (* gamil.com *), <<"g","m","a","i","l",".","c","o","m">> (* gmail.com *)>>,
     <<<<"g","m","a","i",".","c","o","m">> (* gmai.com *), <<"g","m","a","i","l",".","c","o","m">> (* gmail.com *)>>,
     <<<<"g","m","a","i","l","l",".","c","o","m">> (* gmaill.com *), <<"g","m","a","i","l",".","c","o","m">> (* gmail.com *)>>,
     <<<<"g","m","a","i","k",".","c","o","m">> (* gmaik.com *), <<"g","m","a","i","l",".","c","o","m">> (* gmail.com *)>>,
     <<<<"g","m","a","u","l",".","c","o","m">> (* gmaul.com *), <<"g","m","a","i","l",".","c","o","m">> (* gmail.com *)>>,
     <<<<"g","m","a","l",".","c","o","m">> (* gmal.com *), <<"g","m","a","i","l",".","c","o","m">> (* gmail.com *)>>,
     <<<<"g","n","a","i","l",".","c","o","m">> (* gnail.com *), <<"g","m","a","i","l",".","c","o","m">> (* gmail.com *)>>,
     <<<<"g","m","i","a","l",".","c","o","m">> (* gmial.com *), <<"g","m","a","i","l",".","c","o","m">> (* gmail.com *)>>,
     <<<<"g","i","m","a","i","l",".","c","o","m">> (* gimail.com *), <<"g","m","a","i","l",".","c","o","m">> (* gmail.com *)>>,
     <<<<"g","m","a","i","l",".","c","o","n">> (* gmail.con *), <<"g","m","a","i","l",".","c","o","m">> (* gmail.com *)>>,
     <<<<"g","m","a","i","l",".","c","o">> (* gmail.co *), <<"g","m","a","i","l",".","c","o","m">> (* gmail.com *)>>,
     <<<<"g","m","a","i","l",".","c","i","m">> (* gmail.cim *), <<"g","m","a","i","l",".","c","o","m">> (* gmail.com *)>>,
     <<<<"g","m","a","i","l",".","c","m">> (* gmail.cm *), <<"g","m","a","i","l",".","c","o","m">> (* gmail.com *)>>,
     <<<<"y","a","h","h","o",".","c","o","m">> (* yahho.com *), <<"y","a","h","o","o",".","c","o","m">> (* yahoo.com *)>>,
     <<<<"y","a","h","o",".","c","o","m">> (* yaho.com *), <<"y","a","h","o","o",".","c","o","m">> (* yahoo.com *)>>,
     <<<<"y","a","h","o","o",".","c","o">> (* yahoo.co *), <<"y","a","h","o","o",".","c","o","m">> (* yahoo.com *)>>,
     <<<<"h","o","t","m","a","l",".","c","o","m">> (* hotmal.com *), <<"h","o","t","m","a","i","l",".","c","o","m">> (* hotmail.com *)>>,
     <<<<"h","o","t","n","a","i","l",".","c","o","m">> (* hotnail.com *), <<"h","o","t","m","a","i","l",".","c","o","m">> (* hotmail.com *)>>,
     <<<<"h","o","t","m","i","a","l",".","c","o","m">> (* hotmial.com *), <<"h","o","t","m","a","i","l",".","c","o","m">> (* hotmail.com *)>>,
     <<<<"h","o","t","m","a","i",".","c","o","m">> (* hotmai.com *), <<"h","o","t","m","a","i","l",".","c","o","m">> (* hotmail.com *)>>,
     <<<<"h","o","t","m","i","l",".","c","o","m">> (* hotmil.com *), <<"h","o","t","m","a","i","l",".","c","o","m">> (* hotmail.com *)>>,
     <<<<"o","u","t","l","o","k",".","c","o","m">> (* outlok.com *), <<"o","u","t","l","o","o","k",".","c","o","m">> (* outlook.com *)>>,
     <<<<"o","u","t","l","l","o","k",".","c","o","m">> (* outllok.com *), <<"o","u","t","l","o","o","k",".","c","o","m">> (* outlook.com *)>>,
     <<<<"o","u","t","l","o","o","o","k",".","c","o","m">> (* outloook.com *), <<"o","u","t","l","o","o","k",".","c","o","m">> (* outlook.com *)>>,
     <<<<"i","c","l","o","u","d",".","c","o">> (* icloud.co *), <<"i","c","l","o","u","d",".","c","o","m">> (* icloud.com *)>>,
     <<<<"p","r","o","t","o","n","m","a","i","l","l",".","c","o","m">> (* protonmaill.com *), <<"p","r","o","t","o","n","m","a","i","l",".","c","o","m">> (* protonmail.com *)>>,
     <<<<"p","r","o","t","o","n",".","m","e",".">> (* proton.me. *), <<"p","r","o","t","o","n",".","m","e">> (* proton.me *)>>,
     <<<<"g","m","x","d","e">> (* gmxde *), <<"g","m","x",".","d","e">> (* gmx.de *)>>,
     <<<<"w","e","b","d",".","d","e">> (* webd.de *), <<"w","e","b",".","d","e">> (* web.de *)>> >>

\* DEOBF_PATTERNS applied in order
deobfuscate(s0) ==
  LET s1 == lower(strip(Space, s0))
      s2 == ReSub(<<"ParenWord", <<"a","t">>>>, <<"@">>, s1)
      s3 == ReSub(<<"ParenWord", <<"d","o","t">> (* dot *)>>, <<".">>, s2)
      s4 == ReSub(<<"BracketWord", <<"[","a","t","]">>>>, <<"@">>, s3)
      s5 == ReSub(<<"BracketWord", <<"[","d","o","t","]">>>>, <<".">>, s4)
      s6 == ReSub(<<"AtComma">>, <<"@">>, s5)
  IN  ReSub(<<"SpacedAt">>, <<"@">>, s6)

normalize(email0) ==
  LET e1 == deobfuscate(email0)
      e2 == strip(Range(<<"<",">","\"","'"," ",",",";",":","!","(",")","[","]">>), e1)
      e3 == ReSub(<<"Repeat2", "@">>, <<"@">>, e2)
      e4 == ReSub(<<"Repeat2", ".">>, <<".">>, e3)
      e5 == ReSub(<<"WsLitWs", "@">>, <<"@">>, e4)
      e6 == Remove(Space, e5)
      e7 == ReSub(<<"AtPunct">>, <<"@">>, e6)
  IN  IF Contains(e7, "@")
      THEN strip({"."}, BeforeAt(e7)) \o <<"@">> \o strip({"."}, AfterAt(e7))
      ELSE e7

\* <<email, whether a correction was applied>>
correct_domain(email) ==
  IF ~Contains(email, "@") THEN <<email, FALSE>>
  ELSE LET local  == BeforeAt(email)
           domain == lower(strip(Space, AfterAt(email)))
           guess  == domain \o <<".","c","o","m">> (* .com *)
           match  == get_close_matches(domain, EC_COMMON_DOMAINS, 7, 10)
       IN  IF HasKey(TYPO_CORRECTIONS, domain)
             THEN <<local \o <<"@">> \o Lookup(TYPO_CORRECTIONS, domain), TRUE>>
           ELSE IF ~Contains(domain, ".") /\ guess \in Range(EC_COMMON_DOMAINS)
             THEN <<local \o <<"@">> \o guess, TRUE>>
           ELSE IF match # <<>> THEN <<local \o <<"@">> \o match[1], TRUE>>
           ELSE <<local \o <<"@">> \o domain, FALSE>>

\* EMAIL_REGEX.match(email)
is_valid(email) ==
  MatchEmail(UpperLetters \cup LocalClass, UpperLetters \cup DomainClass,
             UpperLetters \cup LowerLetters, 2, email)

(***************************************************************************)
(* Inputs of the model                                                     *)
(***************************************************************************)
MaxItems == 2

MaxParItems == 1

MaxClock == 1

MaxLen == 3

\* raw tokens handed to one invocation
Corpus ==
  << <<>>, <<" ">>, <<"E","v","e","@","i","c","l","o","u","d",".","c","o","m">> (* Eve@icloud.com *),
     <<"e","v","e","@","i","c","l","o","u","d",".","c","o","m"," ">> (* eve@icloud.com  *),
     <<"p","e","t","e","r"," ","@"," ","p","r","o","t","o","n","m","a","i","l"," ","."," ","c","o","m">> (* peter @ protonmail . com *),
     <<"f","r","a","n","k","@","g","n","a","i","l",".","c","o","n">> (* frank@gnail.con *),
     <<"n","o","_","a","t",".","c","o","m">> (* no_at.com *),
     <<"@">>, <<"a","@">>, <<"@","w","e","b",".","d","e">> (* @web.de *),
     <<"a","@","x",".","c","o","m"," ","b","@","y",".","c","o","m">> (* a@x.com b@y.com *),
     <<"a","@","b",".","c">> (* a@b.c *),
     <<"z","e","d","@","a","o","l",".","c","o","m","|","b","o","b","@","w","e","b",".","d","e","\t",";","a","m","y","@","w","e","b",".","d","e",",","Z","e","d","@","a","o","l",".","c","o","m",",">> (* zed@aol.com|bob@web.de<TAB>;amy@web.de,Zed@aol.com, *) >>

\* raw tokens of two interleaved invocations
ParCorpus == << <<"E","v","e","@","i","c","l","o","u","d",".","c","o","m",",","e","v","e","@","i","c","l","o","u","d",".","c","o","m",",","@">> (* Eve@icloud.com,eve@icloud.com,@ *),
<<"a","m","y","@","a","o","l",".","c","o","m">> (* amy@aol.com *) >>

\* characters of the strings normalize is applied to
NormAlphabet == Range(<<"a","t","@",".",","," ">> (* at@.,  *))

Batches(tokens, n) == UNION {[1..k -> Range(tokens)] : k \in 0..n}

Strings(alphabet, n) == UNION {[1..k -> alphabet] : k \in 0..n}

\* time.time(): any reading of the wall clock, in milliseconds, the
\* resolution round(elapsed, 3) keeps
Clock == 0..MaxClock

Fns == {"clean_email_list", "clean_emails"}

(***************************************************************************)
(* Sorting and joining                                                     *)
(***************************************************************************)
\* x.split("@")
split_at(x) ==
  LET f[i \in 1..(Len(x) + 1)] ==
        LET j == CHOOSE j \in i..(Len(x) + 1) :
                   /\ j = Len(x) + 1 \/ x[j] = "@"
                   /\ \A k \in i..(j - 1) : x[k] # "@"
        IN  IF j > Len(x) THEN <<SubSeq(x, i, Len(x))>>
            ELSE <<SubSeq(x, i, j - 1)>> \o f[j + 1]
  IN  f[1]

\* the key with its two components exchanged
SortKeyLocalFirst(x) == <<split_at(x)[1], split_at(x)[2]>>

\* key=lambda x: (x.split("@")[1], x.split("@")[0])
SortKey(x) == <<split_at(x)[2], split_at(x)[1]>>

\* tuple comparison k1 < k2
KeyLess(k1, k2) == StrLess(k1[1], k2[1]) \/ (k1[1] = k2[1] /\ StrLess(k1[2], k2[2]))

RECURSIVE InsertSorted(_, _)
\* x placed after the elements whose key is not greater: the sort is stable
InsertSorted(sorted, x) ==
  IF sorted = <<>> THEN <<x>>
  ELSE IF KeyLess(SortKey(x), SortKey(Head(sorted))) THEN <<x>> \o sorted
  ELSE <<Head(sorted)>> \o InsertSorted(Tail(sorted), x)

RECURSIVE Sorted(_)
\* list.sort(key=...)
Sorted(l) == IF l = <<>> THEN <<>> ELSE InsertSorted(Sorted(SubSeq(l, 1, Len(l) - 1)), l[Len(l)])

RECURSIVE Join(_)
\* "\n".join(lines)
Join(lines) ==
  IF lines = <<>> THEN <<>>
  ELSE IF Len(lines) = 1 THEN lines[1]
  ELSE lines[1] \o <<"\n">> \o Join(Tail(lines))

(***************************************************************************)
(* The invocations.  run[r] holds the local variables of invocation r and *)
(* its position pc; file is cleaned_emails.txt.                           *)
(***************************************************************************)
NoFile == [exists |-> FALSE, content |-> <<>>]

Idle(fn, items) ==
  [fn |-> fn, items |-> items, pc |-> "idle", i |-> 1, parts |-> <<>>,
   cand |-> <<>>, local |-> <<>>, domain |-> <<>>, e |-> <<>>,
   seen |-> {}, cleaned |-> <<>>, removed |-> <<>>, duplicates |-> 0,
   total_input |-> 0, start |-> 0, ret |-> <<>>]

\* the locals at the start of the loop; st.start is read from the clock
\* by clean_email_list only
Locals(st, now) ==
  [st EXCEPT !.seen = {}, !.cleaned = <<>>, !.removed = <<>>, !.duplicates = 0,
             !.total_input = 0, !.start = now, !.pc = "loop"]

\* a set kept at module level: what every invocation has added so far
SeenShared(r) == UNION {run[q].seen : q \in DOMAIN run}

\* the set the membership test of invocation r reads: its own local set
Seen(r) == run[r].seen

\* for raw in items: skip an empty item, else split it
TakeRaw(st) ==
  LET raw == st.items[st.i]
  IN  [st EXCEPT !.i = @ + 1, !.parts = IF raw = <<>> THEN <<>> ELSE re_split(raw)]

\* the count taken before the test for an empty candidate
TakePartCountingEmpty(st) ==
  LET candidate == strip(Space, Head(st.parts))
  IN  IF candidate = <<>> THEN [st EXCEPT !.parts = Tail(@), !.total_input = @ + 1]
      ELSE [st EXCEPT !.parts = Tail(@), !.total_input = @ + 1,
                      !.cand = candidate, !.pc = "clean"]

\* for p in parts: strip, skip an empty candidate, else count it
TakePart(st) ==
  LET candidate == strip(Space, Head(st.parts))
  IN  IF candidate = <<>> THEN [st EXCEPT !.parts = Tail(@)]
      ELSE [st EXCEPT !.parts = Tail(@), !.total_input = @ + 1,
                      !.cand = candidate, !.pc = "clean"]

\* the reason of the other rejection given
RejectNoAtAsInvalid(st) ==
  [st EXCEPT !.removed = Append(@, <<st.cand, "invalid_format">>), !.pc = "loop"]

\* return "", "no_at" and removed.append((candidate, reason))
RejectNoAt(st) == [st EXCEPT !.removed = Append(@, <<st.cand, "no_at">>), !.pc = "loop"]

\* clean_single_email up to the call of fuzzy_correct_domain
SplitCandidate(st) ==
  LET s == PreClean(st.cand)
  IN  IF ~Contains(s, "@") THEN RejectNoAt(st)
      ELSE [st EXCEPT !.local = normalize_local_part(BeforeAt(s)),
                      !.domain = normalize_domain_part(AfterAt(s)),
                      !.pc = "correct"]

\* clean_single_email from the call of fuzzy_correct_domain on
Validate(local, domain) ==
  LET candidate == local \o <<"@">> \o fuzzy_correct_domain(domain)[1]
  IN  IF ~EMAIL_VALID_RE(candidate) THEN <<<<>>, "invalid_format">> ELSE <<candidate, "">>

\* the loop body without the membership test
AcceptNoSeenCheck(st, seen, res) ==
  IF res[1] = <<>>
    THEN [st EXCEPT !.removed = Append(@, <<st.cand, res[2]>>), !.pc = "loop"]
  ELSE [st EXCEPT !.seen = @ \cup {res[1]}, !.cleaned = Append(@, res[1]), !.pc = "loop"]

\* the loop body reporting a duplicate in removed as well
AcceptDuplicateAsRemoved(st, seen, res) ==
  IF res[1] = <<>>
    THEN [st EXCEPT !.removed = Append(@, <<st.cand, res[2]>>), !.pc = "loop"]
  ELSE IF res[1] \in seen
    THEN [st EXCEPT !.duplicates = @ + 1,
                    !.removed = Append(@, <<st.cand, "duplicate">>), !.pc = "loop"]
  ELSE [st EXCEPT !.seen = @ \cup {res[1]}, !.cleaned = Append(@, res[1]), !.pc = "loop"]

\* the rest of the loop body: reject, count a duplicate, or keep
Accept(st, seen, res) ==
  IF res[1] = <<>>
    THEN [st EXCEPT !.removed = Append(@, <<st.cand, res[2]>>), !.pc = "loop"]
  ELSE IF res[1] \in seen
    THEN [st EXCEPT !.duplicates = @ + 1, !.pc = "loop"]
  ELSE [st EXCEPT !.seen = @ \cup {res[1]}, !.cleaned = Append(@, res[1]), !.pc = "loop"]

\* sort, build the summary, return
Return(st, now) ==
  LET cleaned == Sorted(st.cleaned)
  IN  [st EXCEPT !.cleaned = cleaned, !.pc = "done",
                 !.ret = [cleaned |-> cleaned, removed |-> st.removed,
                          summary |-> [total_input  |-> st.total_input,
                                       kept         |-> Len(cleaned),
                                       removed      |-> Len(st.removed),
                                       duplicates   |-> st.duplicates,
                                       time_seconds |-> now - st.start]]]

\* clean_emails: skip an empty item, else normalize it
EcTake(st) ==
  LET raw == st.items[st.i]
  IN  IF raw = <<>> THEN [st EXCEPT !.i = @ + 1]
      ELSE [st EXCEPT !.i = @ + 1, !.e = normalize(raw), !.pc = "correct"]

\* e.replace("..", ".").replace("@@", "@") of the corrected address
EcFix(e) ==
  ReSub(<<"Lit", <<"@","@">>>>, <<"@">>, ReSub(<<"Lit", <<".",".">>>>, <<".">>, correct_domain(e)[1]))

\* clean_emails: drop an invalid address, keep a new one
EcAccept(st, seen, e) ==
  IF ~is_valid(e) THEN [st EXCEPT !.pc = "loop"]
  ELSE IF e \notin seen
    THEN [st EXCEPT !.seen = @ \cup {e}, !.cleaned = Append(@, e), !.pc = "loop"]
  ELSE [st EXCEPT !.pc = "loop"]

EcSorted(st) == [st EXCEPT !.cleaned = Sorted(@), !.pc = "save"]

\* the file opened with "a": the lines added after what it holds
WrittenAppend(old, lines) == [exists |-> TRUE, content |-> old.content \o Join(lines)]

\* open("cleaned_emails.txt", "w") and f.write("\n".join(cleaned))
Written(old, lines) == [exists |-> TRUE, content |-> Join(lines)]

EcReturn(st) == [st EXCEPT !.ret = [cleaned |-> st.cleaned], !.pc = "done"]

(***************************************************************************)
(* Actions                                                                 *)
(***************************************************************************)
Call(r) ==
  /\ run[r].fn = "clean_email_list" /\ run[r].pc = "idle"
  /\ \E now \in Clock : run' = [run EXCEPT ![r] = Locals(run[r], now)]
  /\ UNCHANGED <<file, text, once, applied>>

NextRaw(r) ==
  /\ run[r].fn = "clean_email_list" /\ run[r].pc = "loop"
  /\ run[r].parts = <<>> /\ run[r].i <= Len(run[r].items)
  /\ run' = [run EXCEPT ![r] = TakeRaw(run[r])]
  /\ UNCHANGED <<file, text, once, applied>>

NextPart(r) ==
  /\ run[r].fn = "clean_email_list" /\ run[r].pc = "loop"
  /\ run[r].parts # <<>>
  /\ run' = [run EXCEPT ![r] = TakePart(run[r])]
  /\ UNCHANGED <<file, text, once, applied>>

CleanHead(r) ==
  /\ run[r].fn = "clean_email_list" /\ run[r].pc = "clean"
  /\ run' = [run EXCEPT ![r] = SplitCandidate(run[r])]
  /\ UNCHANGED <<file, text, once, applied>>

Correct(r) ==
  /\ run[r].fn = "clean_email_list" /\ run[r].pc = "correct"
  /\ run' = [run EXCEPT ![r] = Accept(run[r], Seen(r), Validate(run[r].local, run[r].domain))]
  /\ UNCHANGED <<file, text, once, applied>>

Finish(r) ==
  /\ run[r].fn = "clean_email_list" /\ run[r].pc = "loop"
  /\ run[r].parts = <<>> /\ run[r].i > Len(run[r].items)
  /\ \E now \in Clock : run' = [run EXCEPT ![r] = Return(run[r], now)]
  /\ UNCHANGED <<file, text, once, applied>>

EcCall(r) ==
  /\ run[r].fn = "clean_emails" /\ run[r].pc = "idle"
  /\ run' = [run EXCEPT ![r] = Locals(run[r], 0)]
  /\ UNCHANGED <<file, text, once, applied>>

EcNormalize(r) ==
  /\ run[r].fn = "clean_emails" /\ run[r].pc = "loop"
  /\ run[r].i <= Len(run[r].items)
  /\ run' = [run EXCEPT ![r] = EcTake(run[r])]
  /\ UNCHANGED <<file, text, once, applied>>

EcCorrect(r) ==
  /\ run[r].fn = "clean_emails" /\ run[r].pc = "correct"
  /\ run' = [run EXCEPT ![r] = EcAccept(run[r], Seen(r), EcFix(run[r].e))]
  /\ UNCHANGED <<file, text, once, applied>>

EcSort(r) ==
  /\ run[r].fn = "clean_emails" /\ run[r].pc = "loop"
  /\ run[r].i > Len(run[r].items)
  /\ run' = [run EXCEPT ![r] = EcSorted(run[r])]
  /\ UNCHANGED <<file, text, once, applied>>

EcSave(r) ==
  /\ run[r].fn = "clean_emails" /\ run[r].pc = "save"
  /\ file' = Written(file, run[r].cleaned)
  /\ run' = [run EXCEPT ![r] = EcReturn(run[r])]
  /\ UNCHANGED <<text, once, applied>>

\* normalize applied to the text, the first result kept in once
ApplyNormalize ==
  /\ applied < 2
  /\ text' = normalize(text)
  /\ once' = IF applied = 0 THEN normalize(text) ELSE once
  /\ applied' = applied + 1
  /\ UNCHANGED <<run, file>>

Init ==
  /\ run \in {<<Idle(fn, items)>> : fn \in Fns, items \in Batches(Corpus, MaxItems)}
  /\ file = NoFile
  /\ text = <<>> /\ once = <<>> /\ applied = 0

InitPar ==
  /\ run \in {<<Idle(f1, b1), Idle(f2, b2)>> :
                f1 \in Fns, f2 \in Fns,
                b1 \in Batches(ParCorpus, MaxParItems), b2 \in Batches(ParCorpus, MaxParItems)}
  /\ file = NoFile
  /\ text = <<>> /\ once = <<>> /\ applied = 0

InitNorm ==
  /\ run = <<>>
  /\ file = NoFile
  /\ text \in Strings(NormAlphabet, MaxLen) /\ once = <<>> /\ applied = 0

\* one step of invocation r
Step(r) ==
  \/ Call(r) \/ NextRaw(r) \/ NextPart(r) \/ CleanHead(r) \/ Correct(r) \/ Finish(r)
  \/ EcCall(r) \/ EcNormalize(r) \/ EcCorrect(r) \/ EcSort(r) \/ EcSave(r)

Next == Step(1)

NextPar == \E r \in {1, 2} : Step(r)

NextNorm == ApplyNormalize

Spec == Init /\ [][Next]_vars

SpecPar == InitPar /\ [][NextPar]_vars

SpecNorm == InitNorm /\ [][NextNorm]_vars

(***************************************************************************)
(* An invocation run alone: the same steps, taken one after the other     *)
(* with nothing in between                                                 *)
(***************************************************************************)
LocalStep(st) ==
  IF st.fn = "clean_email_list"
  THEN CASE st.pc = "idle" -> Locals(st, 0)
         [] st.pc = "loop" /\ st.parts # <<>> -> TakePart(st)
         [] st.pc = "loop" /\ st.parts = <<>> /\ st.i <= Len(st.items) -> TakeRaw(st)
         [] st.pc = "loop" /\ st.parts = <<>> /\ st.i > Len(st.items) -> Return(st, 0)
         [] st.pc = "clean" -> SplitCandidate(st)
         [] st.pc = "correct" -> Accept(st, st.seen, Validate(st.local, st.domain))
  ELSE CASE st.pc = "idle" -> Locals(st, 0)
         [] st.pc = "loop" /\ st.i <= Len(st.items) -> EcTake(st)
         [] st.pc = "loop" /\ st.i > Len(st.items) -> EcSorted(st)
         [] st.pc = "correct" -> EcAccept(st, st.seen, EcFix(st.e))
         [] st.pc = "save" -> EcReturn(st)

RECURSIVE RunAlone(_)
RunAlone(st) == IF st.pc = "done" THEN st ELSE RunAlone(LocalStep(st))

(***************************************************************************)
(* Properties                                                              *)
(***************************************************************************)
ListRuns == {r \in DOMAIN run : run[r].fn = "clean_email_list"}

EcRuns == {r \in DOMAIN run : run[r].fn = "clean_emails"}

Returned(r) == run[r].pc = "done"

\* the four counts of a returned summary
Counts(ret) ==
  <<ret.summary.total_input, ret.summary.kept, ret.summary.removed, ret.summary.duplicates>>

\* C1: in clean_email_list, between two sub-candidates and in the returned
\* summary, total_input = kept + removed + duplicates
C1_CountConservation ==
  \A r \in ListRuns :
    /\ run[r].pc = "loop" =>
         run[r].total_input = Len(run[r].cleaned) + Len(run[r].removed) + run[r].duplicates
    /\ Returned(r) =>
         /\ run[r].ret.summary.total_input =
              run[r].ret.summary.kept + run[r].ret.summary.removed
                + run[r].ret.summary.duplicates
         /\ run[r].ret.summary.kept = Len(run[r].ret.cleaned)
         /\ run[r].ret.summary.removed = Len(run[r].ret.removed)

\* C1 witness: a returned batch with addresses kept, rejected and dropped as duplicates
C1_Witness ==
  \E r \in ListRuns :
    /\ Returned(r)
    /\ run[r].ret.summary.kept >= 1
    /\ run[r].ret.summary.removed >= 1
    /\ run[r].ret.summary.duplicates >= 1

\* C2: no two positions of cleaned hold the same address, also when the
\* two are compared case-insensitively
C2_NoDuplicates ==
  \A r \in DOMAIN run :
    \A j, k \in 1..Len(run[r].cleaned) :
      j # k => /\ run[r].cleaned[j] # run[r].cleaned[k]
               /\ lower(run[r].cleaned[j]) # lower(run[r].cleaned[k])

\* C2 witness: the two spellings of one address were given and one address is returned
C2_Witness ==
  \E r \in DOMAIN run :
    /\ Returned(r)
    /\ run[r].items = <<<<"E","v","e","@","i","c","l","o","u","d",".","c","o","m">> (* Eve@icloud.com *), <<"e","v","e","@","i","c","l","o","u","d",".","c","o","m"," ">> (* eve@icloud.com  *)>>
    /\ run[r].ret.cleaned = <<<<"e","v","e","@","i","c","l","o","u","d",".","c","o","m">> (* eve@icloud.com *)>>

\* the pair (domain, local) of an address with a single "@"
DomainLocal(x) == <<AfterAt(x), BeforeAt(x)>>

PairLeq(p, q) == p = q \/ StrLess(p[1], q[1]) \/ (p[1] = q[1] /\ StrLess(p[2], q[2]))

\* C3: the returned cleaned list is ascending by (domain, local)
C3_Sorted ==
  \A r \in DOMAIN run :
    Returned(r) =>
      \A k \in 1..(Len(run[r].ret.cleaned) - 1) :
        PairLeq(DomainLocal(run[r].ret.cleaned[k]), DomainLocal(run[r].ret.cleaned[k + 1]))

\* C3 witness: three addresses were accepted in another order than the returned one
C3_Witness ==
  \E r \in ListRuns :
    /\ Returned(r)
    /\ run[r].items = <<<<"z","e","d","@","a","o","l",".","c","o","m","|","b","o","b","@","w","e","b",".","d","e","\t",";","a","m","y","@","w","e","b",".","d","e",",","Z","e","d","@","a","o","l",".","c","o","m",",">> (* zed@aol.com|bob@web.de<TAB>;amy@web.de,Zed@aol.com, *)>>
    /\ run[r].ret.cleaned = <<<<"z","e","d","@","a","o","l",".","c","o","m">> (* zed@aol.com *), <<"a","m","y","@","w","e","b",".","d","e">> (* amy@web.de *), <<"b","o","b","@","w","e","b",".","d","e">> (* bob@web.de *)>>

\* the Validator predicate, stated on the string
ValidatorPredicate(x) ==
  /\ Count(x, "@") = 1
  /\ LET local  == BeforeAt(x)
         domain == AfterAt(x)
     IN  /\ local # <<>> /\ Range(local) \subseteq LocalClass
         /\ Range(domain) \subseteq DomainClass
         /\ Contains(domain, ".")
         /\ LET last == CHOOSE k \in 1..Len(domain) :
                          domain[k] = "." /\ \A m \in (k + 1)..Len(domain) : domain[m] # "."
            IN  /\ Len(domain) - last >= 2
                /\ \A m \in (last + 1)..Len(domain) : domain[m] \in LowerLetters

\* C4: every element of cleaned satisfies the Validator predicate
C4_ValidatorSound ==
  \A r \in DOMAIN run :
    \A k \in 1..Len(run[r].cleaned) : ValidatorPredicate(run[r].cleaned[k])

\* C4 witness: an address whose domain was corrected is in cleaned
C4_Witness ==
  \E r \in DOMAIN run :
    /\ run[r].items = <<<<"f","r","a","n","k","@","g","n","a","i","l",".","c","o","n">> (* frank@gnail.con *)>>
    /\ run[r].cleaned = <<<<"f","r","a","n","k","@","g","m","a","i","l",".","c","o","m">> (* frank@gmail.com *)>>

\* C5: the step that finishes a sub-candidate whose cleaned form is already
\* in cleaned adds one to duplicates and leaves cleaned and removed alone
C5_DuplicateStep ==
  [][\A r \in ListRuns :
       ( /\ run[r].pc = "correct"
         /\ run'[r] # run[r]
         /\ \E k \in 1..Len(run[r].cleaned) :
              run[r].cleaned[k] = clean_single_email(run[r].cand)[1] )
       => /\ run'[r].duplicates = run[r].duplicates + 1
          /\ run'[r].cleaned = run[r].cleaned
          /\ run'[r].removed = run[r].removed
          /\ run'[r].seen = run[r].seen]_vars

\* C5 witness: a duplicate was dropped: one address kept, nothing rejected
C5_Witness ==
  \E r \in ListRuns :
    /\ run[r].pc = "loop"
    /\ run[r].duplicates = 1
    /\ run[r].cleaned = <<<<"e","v","e","@","i","c","l","o","u","d",".","c","o","m">> (* eve@icloud.com *)>>
    /\ run[r].removed = <<>>

\* C6 as claimed: two invocations on the same input return identical
\* results, every field of the summary included
C6_Original ==
  \A r, q \in DOMAIN run :
    (Returned(r) /\ Returned(q) /\ run[r].fn = run[q].fn /\ run[r].items = run[q].items)
      => run[r].ret = run[q].ret

\* C6 amended: they return the same cleaned list, the same removed list and
\* the same four counts; time_seconds is the elapsed wall-clock time
C6_Deterministic ==
  \A r, q \in DOMAIN run :
    (Returned(r) /\ Returned(q) /\ run[r].fn = run[q].fn /\ run[r].items = run[q].items)
      => /\ run[r].ret.cleaned = run[q].ret.cleaned
         /\ run[r].fn = "clean_email_list" =>
              /\ run[r].ret.removed = run[q].ret.removed
              /\ Counts(run[r].ret) = Counts(run[q].ret)

\* C6 witness: two invocations on the same batch returned, with different time_seconds
C6_Witness ==
  /\ DOMAIN run = {1, 2}
  /\ Returned(1) /\ Returned(2)
  /\ run[1].fn = "clean_email_list" /\ run[2].fn = "clean_email_list"
  /\ run[1].items = <<<<"E","v","e","@","i","c","l","o","u","d",".","c","o","m",",","e","v","e","@","i","c","l","o","u","d",".","c","o","m",",","@">> (* Eve@icloud.com,eve@icloud.com,@ *)>> /\ run[2].items = run[1].items
  /\ run[1].ret.summary.time_seconds # run[2].ret.summary.time_seconds

\* C7 as claimed: normalize(normalize(s)) = normalize(s)
C7_Idempotent == applied = 2 => text = once

\* the result of invocation r is the one it returns when run alone
SameAsAlone(r) ==
  LET alone == RunAlone(Idle(run[r].fn, run[r].items)).ret
  IN  /\ run[r].ret.cleaned = alone.cleaned
      /\ run[r].fn = "clean_email_list" =>
           /\ run[r].ret.removed = alone.removed
           /\ Counts(run[r].ret) = Counts(alone)

\* invocation r has written cleaned_emails.txt
Wrote(r) == run[r].fn = "clean_emails" /\ run[r].pc = "done"

Separators == {",", ";", "|", "\t", " "}

\* two addresses on the two sides of a separator
Merged(c) ==
  \E k \in 1..Len(c) :
    /\ c[k] \in Separators
    /\ Contains(SubSeq(c, 1, k - 1), "@")
    /\ Contains(SubSeq(c, k + 1, Len(c)), "@")

\* C9 as claimed: a sub-candidate never holds two addresses with a
\* separator between them
C9_NeverMerged ==
  \A r \in ListRuns : run[r].pc = "clean" => ~Merged(run[r].cand)

\* C10 as claimed: at the call of the Domain Corrector local and domain are
\* both non-empty
C10_Original ==
  \A r \in ListRuns :
    run[r].pc = "correct" => run[r].local # <<>> /\ run[r].domain # <<>>

\* C10 amended: at the call of fuzzy_correct_domain the candidate held an
\* "@"; local or domain may be empty and the candidate is then rejected as
\* invalid_format; a candidate is rejected as no_at exactly when it holds
\* no "@" after the first cleaning, and that is before the call
C10_AtBeforeCorrector ==
  \A r \in ListRuns :
    /\ run[r].pc = "correct" =>
         /\ Contains(PreClean(run[r].cand), "@")
         /\ (run[r].local = <<>> \/ run[r].domain = <<>>) =>
              Validate(run[r].local, run[r].domain) = <<<<>>, "invalid_format">>
    /\ \A k \in 1..Len(run[r].removed) :
         run[r].removed[k][2] = "no_at" <=> ~Contains(PreClean(run[r].removed[k][1]), "@")
    /\ (run[r].pc \in {"loop", "done"} /\ run[r].total_input > 0
          /\ ~Contains(PreClean(run[r].cand), "@")) =>
         /\ run[r].removed # <<>>
         /\ run[r].removed[Len(run[r].removed)] = <<run[r].cand, "no_at">>

\* C10 witness: the Domain Corrector is called with an empty local part and an empty domain
C10_Witness ==
  \E r \in ListRuns :
    run[r].pc = "correct" /\ run[r].cand = <<"@">> /\ run[r].local = <<>> /\ run[r].domain = <<>>
====
